---- MODULE Spec2Model ----
(***************************************************************************)
(* Model of the agent harness of MLE-dojo-project:                         *)
(*   agent/wrappers/mledojo_wrapper.py  MLEDojoWrapper (episode control,   *)
(*                                      code extraction)                   *)
(*   agent/core/base_agent.py           BaseAgent (history store)          *)
(*   agent/core/local_model.py          LocalModelAgent                    *)
(*   agent/core/prompts.py              PromptManager                      *)
(*                                                                         *)
(* Texts are TLA+ strings handled character by character.  The TLA+ lexer  *)
(* cannot read U+0060 (the back quote) inside a string, so the model       *)
(* writes that one character as BQ; no text of the model uses BQ's         *)
(* stand-in for anything else.  Floats are modelled by integers (0.0 is 0).*)
(***************************************************************************)
EXTENDS Integers, Sequences, FiniteSets, TLC

\* ------------------------------------------------------------------------
\* Bounds of the model
\* ------------------------------------------------------------------------
MaxSteps == 2
MaxEpisodes == 2
MaxHistory == 1
MaxBlocks == 2
MaxLines == 2
MaxEntries == 3
MaxTurns == 3

\* ------------------------------------------------------------------------
\* Python text primitives used by the wrapper
\* ------------------------------------------------------------------------
BQ == "~"
Fence == BQ \o BQ \o BQ

WS == {" ", "\t", "\n", "\r", "\f"}

SetMin(S) == CHOOSE m \in S : \A n \in S : m <= n
SetMax(S) == CHOOSE m \in S : \A n \in S : m >= n

Char(s, i) == SubSeq(s, i, i)

StartsWithAt(s, p, i) ==
  /\ i + Len(p) - 1 <= Len(s)
  /\ SubSeq(s, i, i + Len(p) - 1) = p

StartsWith(s, p) == StartsWithAt(s, p, 1)

StartsWithAny(s, ps) == \E p \in ps : StartsWith(s, p)

EndsWith(s, p) ==
  /\ Len(p) <= Len(s)
  /\ SubSeq(s, Len(s) - Len(p) + 1, Len(s)) = p

EndsWithAny(s, ps) == \E p \in ps : EndsWith(s, p)

\* str.find(p, from): the first position >= from where p occurs, 0 if none
Find(s, p, from) ==
  LET hits == {i \in from..(Len(s) - Len(p) + 1) : StartsWithAt(s, p, i)}
  IN  IF hits = {} THEN 0 ELSE SetMin(hits)

\* the `in` operator on texts
Contains(s, p) == Find(s, p, 1) # 0

\* str.strip()
Strip(s) ==
  LET solid == {i \in 1..Len(s) : Char(s, i) \notin WS}
  IN  IF solid = {} THEN "" ELSE SubSeq(s, SetMin(solid), SetMax(solid))

\* str.split("\n")
RECURSIVE SplitFrom(_, _)
SplitFrom(s, i) ==
  LET j == Find(s, "\n", i)
  IN  IF j = 0 THEN <<SubSeq(s, i, Len(s))>>
      ELSE <<SubSeq(s, i, j - 1)>> \o SplitFrom(s, j + 1)

SplitLines(s) == SplitFrom(s, 1)

\* "\n".join(lines)
RECURSIVE JoinLines(_)
JoinLines(lines) ==
  IF lines = <<>> THEN ""
  ELSE IF Len(lines) = 1 THEN lines[1]
  ELSE lines[1] \o "\n" \o JoinLines(Tail(lines))

\* len(s.split()): the number of maximal runs of non-whitespace characters
WordCount(s) ==
  Cardinality({i \in 1..Len(s) :
                 /\ Char(s, i) \notin WS
                 /\ (i = 1 \/ Char(s, i - 1) \in WS)})

\* s[:n]
Prefix(s, n) == SubSeq(s, 1, IF Len(s) < n THEN Len(s) ELSE n)

\* ------------------------------------------------------------------------
\* re.findall of the wrapper's three patterns (re.DOTALL, lazy capture)
\* ------------------------------------------------------------------------
NoMatch == [found |-> FALSE, text |-> "", end |-> 0]

\* one match of  FENCE (?:tag1|tag2|...) \s* \n (.*?) FENCE  starting at i;
\* tags are tried in order, \s* is greedy and gives back down to a newline
FencedBody(s, j) ==
  LET stops == {k \in j..Len(s) : Char(s, k) \notin WS}
      k     == IF stops = {} THEN Len(s) + 1 ELSE SetMin(stops)
      nls   == {p \in j..(k - 1) : Char(s, p) = "\n"}
      p     == IF nls = {} THEN 0 ELSE SetMax(nls)
      q     == IF p = 0 THEN 0 ELSE Find(s, Fence, p + 1)
  IN  IF q = 0 THEN NoMatch
      ELSE [found |-> TRUE, text |-> SubSeq(s, p + 1, q - 1), end |-> q + 3]

FencedMatchAt(s, tags, i) ==
  IF ~StartsWithAt(s, Fence, i) THEN NoMatch
  ELSE LET good == {n \in 1..Len(tags) :
                      /\ StartsWithAt(s, tags[n], i + 3)
                      /\ FencedBody(s, i + 3 + Len(tags[n])).found}
       IN  IF good = {} THEN NoMatch
           ELSE FencedBody(s, i + 3 + Len(tags[SetMin(good)]))

\* one match of  <code>(.*?)</code>  starting at i
XmlMatchAt(s, i) ==
  IF ~StartsWithAt(s, "<code>", i) THEN NoMatch
  ELSE LET q == Find(s, "</code>", i + 6)
       IN  IF q = 0 THEN NoMatch
           ELSE [found |-> TRUE, text |-> SubSeq(s, i + 6, q - 1), end |-> q + 7]

\* markdown_pattern / plain_pattern / xml_pattern, as functions position -> match
PatternMatchAt(s, pat, i) ==
  CASE pat = "markdown" -> FencedMatchAt(s, <<"python", "py">>, i)
    [] pat = "plain"    -> FencedMatchAt(s, <<"">>, i)
    [] pat = "xml"      -> XmlMatchAt(s, i)

\* re.findall: leftmost matches, left to right, not overlapping
RECURSIVE FindAllFrom(_, _, _)
FindAllFrom(s, pat, from) ==
  LET starts == {i \in from..Len(s) : PatternMatchAt(s, pat, i).found}
  IN  IF starts = {} THEN <<>>
      ELSE LET m == PatternMatchAt(s, pat, SetMin(starts))
           IN  <<m.text>> \o FindAllFrom(s, pat, m.end)

FindAll(s, pat) == FindAllFrom(s, pat, 1)

\* ------------------------------------------------------------------------
\* ast.parse: the parser is an oracle over a vocabulary of one-line
\* statements; a text parses when each of its lines is blank, a comment or
\* one of these statements at column 0.  Everything else is a SyntaxError.
\* ------------------------------------------------------------------------
PyStatements == {"import os", "x = 1", "print(x)"}

PyLineOk(line) ==
  \/ Strip(line) = ""
  \/ StartsWith(Strip(line), "#")
  \/ \E st \in PyStatements : StartsWith(line, st) /\ Strip(line) = st

PyParses(text) ==
  LET lines == SplitLines(text)
  IN  \A n \in 1..Len(lines) : PyLineOk(lines[n])

\* ------------------------------------------------------------------------
\* MLEDojoWrapper._clean_code
\* ------------------------------------------------------------------------
ExplanatoryMarkers == {"Note:", "This will", "The above", "Output:"}
LongCommentLen == 50

\* a cleanup that drops every comment line, whatever its length
CleanKeeps_DropsEveryComment(line) ==
  LET stripped == Strip(line)
  IN  /\ ~StartsWithAny(stripped, ExplanatoryMarkers)
      /\ ~StartsWith(stripped, "#")

CleanKeeps(line) ==
  LET stripped == Strip(line)
  IN  /\ ~StartsWithAny(stripped, ExplanatoryMarkers)
      /\ ~(StartsWith(stripped, "#") /\ Len(stripped) > LongCommentLen)

_clean_code(code) ==
  Strip(JoinLines(SelectSeq(SplitLines(code), CleanKeeps)))

\* ------------------------------------------------------------------------
\* MLEDojoWrapper._extract_code
\* ------------------------------------------------------------------------
CodeStarters == {"import ", "from ", "def ", "class ", "async def"}
DiscourseMarkers == {"I will", "Let me", "First", "Then", "Now", "Here", "This"}
LongLineWords == 15
PreviewLen == 200

\* a filter without the long-line rule
LooksNatural_NoWordLimit(stripped) ==
  \/ StartsWithAny(stripped, DiscourseMarkers)
  \/ EndsWithAny(stripped, {"?", ":"})

LooksNatural(stripped) ==
  \/ StartsWithAny(stripped, DiscourseMarkers)
  \/ EndsWithAny(stripped, {"?", ":"})
  \/ (WordCount(stripped) > LongLineWords /\ ~Contains(stripped, "="))

\* Strategy 3: the line scan; in_code latches at the first starter line
RECURSIVE ScanLines(_, _)
ScanLines(lines, in_code) ==
  IF lines = <<>> THEN <<>>
  ELSE LET line     == Head(lines)
           stripped == Strip(line)
           now_in   == in_code \/ StartsWithAny(stripped, CodeStarters)
           keep     == now_in /\ (stripped = "" \/ ~LooksNatural(stripped))
       IN  (IF keep THEN <<line>> ELSE <<>>) \o ScanLines(Tail(lines), now_in)

\* both fence strategies always run
FencedCandidates_Both(response) ==
  FindAll(response, "markdown") \o FindAll(response, "plain")

FencedCandidates(response) ==
  LET markdown_matches == FindAll(response, "markdown")
  IN  IF markdown_matches # <<>> THEN markdown_matches
      ELSE FindAll(response, "plain")

\* the <code> candidates ahead of the fenced ones
TaggedPool_XmlFirst(response) ==
  FindAll(response, "xml") \o FencedCandidates(response)

TaggedPool(response) == FencedCandidates(response) \o FindAll(response, "xml")

\* a pool that always gets the line scan's candidate too
CandidatePool_AlwaysScans(response) ==
  LET code_lines == ScanLines(SplitLines(response), FALSE)
  IN  TaggedPool(response) \o
        (IF code_lines # <<>> THEN <<JoinLines(code_lines)>> ELSE <<>>)

CandidatePool(response) ==
  IF TaggedPool(response) # <<>> THEN TaggedPool(response)
  ELSE LET code_lines == ScanLines(SplitLines(response), FALSE)
       IN  IF code_lines # <<>> THEN <<JoinLines(code_lines)>> ELSE <<>>

\* a failure that carries the whole response
ExtractionFailure_WholeResponse(response) ==
  [ok |-> FALSE, code |-> "", preview |-> response]

ExtractionFailure(response) ==
  [ok |-> FALSE, code |-> "", preview |-> Prefix(response, PreviewLen)]

RECURSIVE Validate(_, _)
Validate(code_candidates, response) ==
  IF code_candidates = <<>> THEN ExtractionFailure(response)
  ELSE LET candidate == Strip(Head(code_candidates))
           fixed_candidate == _clean_code(candidate)
       IN  IF candidate = "" THEN Validate(Tail(code_candidates), response)
           ELSE IF PyParses(candidate)
                THEN [ok |-> TRUE, code |-> candidate, preview |-> ""]
           ELSE IF PyParses(fixed_candidate)
                THEN [ok |-> TRUE, code |-> fixed_candidate, preview |-> ""]
           ELSE Validate(Tail(code_candidates), response)

Reverse(seq) == [n \in 1..Len(seq) |-> seq[Len(seq) + 1 - n]]

\* an extractor that tries the candidates last to first
_extract_code_LastFirst(response) ==
  Validate(Reverse(CandidatePool(response)), response)

_extract_code(response) == Validate(CandidatePool(response), response)

\* ------------------------------------------------------------------------
\* Values exchanged with the collaborators
\* ------------------------------------------------------------------------
\* Optional[T]: None is the empty tuple, a value v is <<v>>
None == <<>>
Some(v) == <<v>>

\* dict.get(key, default) on a record
Get(d, key, default) == IF key \in DOMAIN d THEN d[key] ELSE default

\* what the model collaborator can answer (already stripped, as
\* LocalModelAgent.generate_response strips the generated text)
Responses ==
  { "I need more data.",
    "~~~python\nimport os\n~~~",
    "We import data",
    "~~~\nx = 1\n~~~" }

\* rewards a caller can hand to the tuple-style step
Rewards == {0 - 1, 0, 1}

\* position scores the environment reports
Scores == {0, 1}

\* an observation of the scored-feedback contract of env.step
Observation(text, current, best, status) ==
  [ feedback |-> [base |-> [feedback |-> text]],
    current_position_score |-> current,
    best_position_score |-> best,
    action_status |-> status ]

\* an observation whose feedback has no base entry
BareObservation(current, best, status) ==
  [ feedback |-> [x \in {} |-> ""],
    current_position_score |-> current,
    best_position_score |-> best,
    action_status |-> status ]

\* what env.step can return as (obs, reward): a submission that scores and
\* is rewarded, one that loses the position and is penalised, and an
\* answer that carries no feedback text
EnvResults ==
  { [obs |-> Observation("ok", 1, 1, "SUCCESS"), reward |-> 1],
    [obs |-> Observation("ok", 0, 1, "SUCCESS"), reward |-> 0 - 1],
    [obs |-> BareObservation(1, 1, "SUCCESS"), reward |-> 0] }

\* exceptions env.step can raise; the wrapper tells ValueError from the rest
EnvExceptions ==
  { [type |-> "ValueError", msg |-> "bad action"],
    [type |-> "RuntimeError", msg |-> "env down"] }

\* one call of env.step either returns (obs, reward), possibly signalling
\* that the competition is complete, or raises
EnvOutcomes ==
  { [kind |-> "return", obs |-> r.obs, reward |-> r.reward, done |-> d] :
      r \in EnvResults, d \in BOOLEAN }
    \cup { [kind |-> "raise", exc |-> e] : e \in EnvExceptions }

\* the ValueError raised at the end of _extract_code
ValueErrorOf(extraction) ==
  [ type |-> "ValueError",
    msg  |-> "No valid Python code found in response. Response preview: "
               \o extraction.preview \o "..." ]

ExtractionError(response) == ValueErrorOf(_extract_code(response))

\* self._extract_code(agent_response) in run_episode: what _extract_code
\* returns for each answer of the model, computed once
ExtractionOf == [response \in Responses |-> _extract_code(response)]

NoObs == [none |-> TRUE]
NoExc == [type |-> "", msg |-> ""]
NoAction == [name |-> "", arg |-> ""]
NoOutcome == [kind |-> "none"]

\* ------------------------------------------------------------------------
\* State
\* ------------------------------------------------------------------------
VARIABLES
  episode_count,           \* MLEDojoWrapper.episode_count
  total_reward,            \* MLEDojoWrapper.total_reward
  current_episode_reward,  \* MLEDojoWrapper.current_episode_reward
  conversation_history,    \* BaseAgent.conversation_history
  pc,                      \* where the wrapper is: "idle" between calls,
                           \* else the next statement group of run_episode
  max_steps,               \* run_episode local
  step_count,              \* run_episode local
  obs,                     \* run_episode local: the latest observation
  step_reward,             \* run_episode local
  feedback_history,        \* run_episode local: the step ledger
  agent_response,          \* run_episode local
  extraction,              \* this step's use of _extract_code:
                           \* "none", "skipped", "ok" or "failed"
  action,                  \* the action resolved from agent_response
  exc,                     \* the exception being handled (e in the source)
  calls,                   \* env.step calls of the current step, in order
  outcome,                 \* how the last finished call ended
  env_score,               \* environment: the score it last reported
  env_done,                \* environment: it has signalled completion
  episode_start_total,     \* history variable: total_reward on entry to the
                           \* running call of run_episode
  model_call,              \* the call of agent.generate_response just made:
                           \* its arguments and the history its prompt is
                           \* built from
  arg,                     \* the arguments of the function being called,
                           \* for the functions studied on their own
  result                   \* what that call returned

vars ==
  << episode_count, total_reward, current_episode_reward,
     conversation_history, pc, max_steps, step_count, obs, step_reward,
     feedback_history, agent_response, extraction, action, exc, calls,
     outcome, env_score, env_done, episode_start_total,
     model_call, arg, result >>

\* the wrapper, its agent and the environment
wrapper_vars ==
  << episode_count, total_reward, current_episode_reward,
     conversation_history, pc, max_steps, step_count, obs, step_reward,
     feedback_history, agent_response, extraction, action, exc, calls,
     outcome, env_score, env_done, episode_start_total,
     model_call >>

\* the variables of the functions studied on their own
call_vars == <<arg, result>>
NoArg == [fn |-> "none"]
NoResult == [returned |-> FALSE]
NoModelCall == [made |-> FALSE]

wrapper_fields == <<episode_count, total_reward, current_episode_reward>>
step_locals == <<agent_response, extraction, action, exc>>
env_state == <<env_score, env_done>>

DEFAULT_MAX_STEPS == 10

\* the wrapper and its agent after construction
InitWrapper ==
  /\ episode_count = 0
  /\ total_reward = 0
  /\ current_episode_reward = 0
  /\ conversation_history = <<>>
  /\ pc = "idle"
  /\ max_steps = 0
  /\ step_count = 0
  /\ obs = NoObs
  /\ step_reward = 0
  /\ feedback_history = <<>>
  /\ agent_response = ""
  /\ extraction = "none"
  /\ action = NoAction
  /\ exc = NoExc
  /\ calls = <<>>
  /\ outcome = NoOutcome
  /\ env_score = 0
  /\ env_done = FALSE
  /\ episode_start_total = 0
  /\ model_call = NoModelCall

Init ==
  /\ InitWrapper
  /\ arg = NoArg
  /\ result = NoResult

\* ------------------------------------------------------------------------
\* PromptManager (agent/core/prompts.py)
\* ------------------------------------------------------------------------
SYSTEM_PROMPT ==
     "You are an expert machine learning engineer competing in Kaggle-style ML competitions.\n"
  \o "You are working in the MLE-Dojo environment where you can iteratively develop ML solutions.\n"
  \o "\n"
  \o "## Environment Actions Available:\n"
  \o "1. **request_info** - Request information about the competition\n"
  \o "   - info_type=\"overview\": Get competition description and goals\n"
  \o "   - info_type=\"data_structure\": Get data file structure and columns\n"
  \o "   - info_type=\"metric\": Get evaluation metric details\n"
  \o "\n"
  \o "2. **execute_code** - Execute Python code in the environment\n"
  \o "   - Write code to explore data, train models, generate predictions\n"
  \o "   - Code runs in a sandboxed Python environment with ML libraries available\n"
  \o "   - Always save predictions to 'submission.csv' in the correct format\n"
  \o "\n"
  \o "## Your Workflow Should Follow:\n"
  \o "1. **Understand** - Request overview and data structure\n"
  \o "2. **Explore** - Write code to load and analyze the data\n"
  \o "3. **Develop** - Iteratively build and improve your solution:\n"
  \o "   - Start with simple baseline models\n"
  \o "   - Experiment with feature engineering\n"
  \o "   - Try different algorithms\n"
  \o "   - Tune hyperparameters\n"
  \o "4. **Submit** - Generate final predictions in the required format\n"
  \o "\n"
  \o "## Code Response Format:\n"
  \o "When you want to execute code, wrap it in markdown code blocks:\n"
  \o "\n"
  \o "~~~python\n"
  \o "# Your code here\n"
  \o "import pandas as pd\n"
  \o "# ... rest of code\n"
  \o "~~~\n"
  \o "\n"
  \o "## Important Guidelines:\n"
  \o "- Start simple, then iterate and improve\n"
  \o "- Always handle errors gracefully\n"
  \o "- Read feedback from previous actions carefully\n"
  \o "- The environment gives you feedback after each action\n"
  \o "- Your score improves when predictions are better\n"
  \o "- Think step-by-step and explain your reasoning before coding"

TASK_TEMPLATE ==
     "\n"
  \o "## Competition Details\n"
  \o "{task_description}\n"
  \o "\n"
  \o "## Current Feedback from Environment\n"
  \o "{observation}\n"
  \o "\n"
  \o "## Your Next Action\n"
  \o "Based on the feedback above, decide your next step:\n"
  \o "\n"
  \o "1. If you need more information: Explain what you need to know\n"
  \o "2. If you're ready to code: Provide your reasoning, then write the code in a ~~~python~~~ block\n"
  \o "\n"
  \o "Think step-by-step:\n"
  \o "- What did the last action accomplish?\n"
  \o "- What information do I have now?\n"
  \o "- What should I do next to improve my solution?\n"

HISTORY_TEMPLATE ==
     "\n"
  \o "## Previous Actions and Feedback\n"
  \o "{history}\n"
  \o "\n"
  \o "## Latest Feedback from Environment\n"
  \o "{observation}\n"
  \o "\n"
  \o "## Analysis and Next Action\n"
  \o "Review what you've tried so far. Then:\n"
  \o "\n"
  \o "1. **Analyze**: What worked? What didn't? What did you learn?\n"
  \o "2. **Decide**: What's the logical next step to improve your solution?\n"
  \o "3. **Act**: Write code in a ~~~python~~~ block OR explain what information you need\n"
  \o "\n"
  \o "Remember: Iterate and improve! Each action should build on previous learning.\n"

DEFAULT_MAX_TURNS == 10

\* str.format on a template whose replacement fields are plain {name}
RECURSIVE Format(_, _)
Format(template, fields) ==
  LET open == Find(template, "{", 1)
  IN  IF open = 0 THEN template
      ELSE LET close == Find(template, "}", open)
               name  == SubSeq(template, open + 1, close - 1)
           IN  SubSeq(template, 1, open - 1) \o fields[name]
                 \o Format(SubSeq(template, close + 1, Len(template)), fields)

\* seq[start:] with Python's index rule: a negative start counts from the
\* end and is clamped at the beginning of the list
SliceFrom(seq, start) ==
  LET from == IF start < 0
              THEN (IF start + Len(seq) < 0 THEN 0 ELSE start + Len(seq))
              ELSE (IF start > Len(seq) THEN Len(seq) ELSE start)
  IN  SubSeq(seq, from + 1, Len(seq))

\* history[-max_turns:] if len(history) > max_turns else history
RecentHistory(history, max_turns) ==
  IF Len(history) > max_turns THEN SliceFrom(history, 0 - max_turns)
  ELSE history

\* the four lines appended for turn i
TurnLines(i, turn) ==
  << "### Turn " \o ToString(i),
     "**Observation:** " \o turn.observation,
     "**Response:** " \o turn.response,
     "" >>

RECURSIVE FormatTurns(_, _)
FormatTurns(recent_history, i) ==
  IF i > Len(recent_history) THEN <<>>
  ELSE TurnLines(i, recent_history[i]) \o FormatTurns(recent_history, i + 1)

_format_history(history, max_turns) ==
  JoinLines(FormatTurns(RecentHistory(history, max_turns), 1))

\* a prompt that prefers the history to the task description
build_prompt_HistoryFirst(observation, history, context) ==
  JoinLines(
    IF history # None /\ Len(history[1]) > 0
    THEN << SYSTEM_PROMPT,
            Format(HISTORY_TEMPLATE,
                   [ history |-> _format_history(history[1], DEFAULT_MAX_TURNS),
                     observation |-> observation ]) >>
    ELSE IF context # None /\ "task_description" \in DOMAIN context[1]
    THEN << SYSTEM_PROMPT,
            Format(TASK_TEMPLATE,
                   [ task_description |-> context[1].task_description,
                     observation |-> observation ]) >>
    ELSE << SYSTEM_PROMPT,
            "\n## Current Observation\n" \o observation \o "\n",
            "\n## Your Response\n" >>)

\* history and context are Optional; an empty dict or list is falsy
build_prompt(observation, history, context) ==
  JoinLines(
    IF context # None /\ "task_description" \in DOMAIN context[1]
    THEN << SYSTEM_PROMPT,
            Format(TASK_TEMPLATE,
                   [ task_description |-> context[1].task_description,
                     observation |-> observation ]) >>
    ELSE IF history # None /\ Len(history[1]) > 0
    THEN << SYSTEM_PROMPT,
            Format(HISTORY_TEMPLATE,
                   [ history |-> _format_history(history[1], DEFAULT_MAX_TURNS),
                     observation |-> observation ]) >>
    ELSE << SYSTEM_PROMPT,
            "\n## Current Observation\n" \o observation \o "\n",
            "\n## Your Response\n" >>)

\* ------------------------------------------------------------------------
\* Agent (BaseAgent / LocalModelAgent)
\* ------------------------------------------------------------------------
\* a history store that keeps the latest two pairs only
update_history_KeepsLastTwo(observation, response) ==
  conversation_history' =
    LET all == Append(conversation_history,
                      [observation |-> observation, response |-> response])
    IN  IF Len(all) > 2 THEN SubSeq(all, Len(all) - 1, Len(all)) ELSE all

\* BaseAgent.update_history
update_history(observation, response) ==
  conversation_history' =
    Append(conversation_history,
           [observation |-> observation, response |-> response])

\* LocalModelAgent.generate_response: the prompt is built from the
\* observation, the history as it is and the context (model_call keeps
\* the three; the prompt is build_prompt of them), the pipeline answers
\* `response`, then the pair is recorded
\* an agent that records the pair before it builds the prompt
generate_response_UpdatesFirst(observation, context, response) ==
  /\ response \in Responses
  /\ model_call' =
       [ made |-> TRUE, observation |-> observation, context |-> context,
         history |-> Append(conversation_history,
                            [observation |-> observation,
                             response |-> response]) ]
  /\ update_history(observation, response)

generate_response(observation, context, response) ==
  /\ response \in Responses
  /\ model_call' =
       [ made |-> TRUE, observation |-> observation, context |-> context,
         history |-> conversation_history ]
  /\ update_history(observation, response)

\* LocalModelAgent.reset
agent_reset == conversation_history' = <<>>

\* ------------------------------------------------------------------------
\* MLEDojoWrapper helpers
\* ------------------------------------------------------------------------
\* the nested lookup obs.get('feedback', {}).get('base', {}).get('feedback', '')
EmptyDict == [x \in {} |-> ""]
FeedbackOf(o) ==
  Get(Get(Get(o, "feedback", EmptyDict), "base", EmptyDict), "feedback", "")

\* the condition that sends a response to _extract_code
HasCodeIndicator(response) ==
  \/ Contains(response, Fence \o "python")
  \/ Contains(response, Fence \o "py")
  \/ Contains(response, "<code>")
  \/ Contains(response, "import ")

ExecuteCode(code) == [name |-> "execute_code", arg |-> code]
RequestInfo(info_type) == [name |-> "request_info", arg |-> info_type]

\* an episode that opens with the data structure request
InitialAction_DataStructure == RequestInfo("data_structure")
InitialAction == RequestInfo("overview")
\* a request for a kind of information the environment does not know
NoCodeAction_Metrics == RequestInfo("metrics")
NoCodeAction == RequestInfo("data_structure")

\* a fallback that submits the unvalidated response as code
FallbackAction_SubmitsResponse == ExecuteCode(agent_response)
FallbackAction == RequestInfo("data_structure")
RecoveryAction == RequestInfo("overview")

\* the observation made up when the recovery call fails too
DegradedObs(e) ==
  [ feedback |-> [base |-> [feedback |-> "Error: " \o e.msg]],
    action_status |-> "ERROR" ]

\* a ledger entry numbered from 0 (the loop variable instead of step_count)
StepRecord_ZeroBased(count, o, reward) ==
  [ step |-> count - 1,
    action_status |-> Get(o, "action_status", "UNKNOWN"),
    reward |-> reward,
    cumulative_score |-> Get(o, "current_position_score", 0) ]

\* the ledger entry appended at the end of a step
StepRecord(count, o, reward) ==
  [ step |-> count,
    action_status |-> Get(o, "action_status", "UNKNOWN"),
    reward |-> reward,
    cumulative_score |-> Get(o, "current_position_score", 0) ]

\* a default that replaces None only
OrDefault_NoneOnly(m) == IF m = None THEN DEFAULT_MAX_STEPS ELSE m[1]

\* max_steps or 10
OrDefault(m) == IF m = None \/ m = Some(0) THEN DEFAULT_MAX_STEPS ELSE m[1]

\* get_stats(); the average is kept as the exact quotient <<num, den>>
get_stats ==
  [ episode_count |-> episode_count,
    total_reward |-> total_reward,
    current_episode_reward |-> current_episode_reward,
    avg_reward_per_episode |->
      IF episode_count > 0 THEN <<total_reward, episode_count>> ELSE <<0, 1>> ]

\* the dictionary run_episode returns
EpisodeResult ==
  [ stats |-> get_stats,
    feedback_history |-> feedback_history,
    final_position_score |-> current_episode_reward,
    best_position_score |-> Get(obs, "best_position_score", 0),
    steps_taken |-> step_count,
    final_observation |-> obs ]

\* _format_observation: a dict is a sequence of <<key, value>> items in
\* insertion order, anything else is shown by str()
DictObs(items) == [is_dict |-> TRUE, items |-> items, str |-> ""]
PlainObs(text) == [is_dict |-> FALSE, items |-> <<>>, str |-> text]

HasKey(items, key) == \E n \in 1..Len(items) : items[n][1] = key
Lookup(items, key) ==
  items[CHOOSE n \in 1..Len(items) : items[n][1] = key][2]

RECURSIVE FormatItems(_)
FormatItems(items) ==
  IF items = <<>> THEN <<>>
  ELSE <<items[1][1] \o ": " \o items[1][2]>> \o FormatItems(Tail(items))

_format_observation(observation) ==
  IF observation.is_dict
  THEN IF HasKey(observation.items, "text")
       THEN Lookup(observation.items, "text")
       ELSE IF HasKey(observation.items, "state")
       THEN Lookup(observation.items, "state")
       ELSE JoinLines(FormatItems(observation.items))
  ELSE observation.str

\* observations handed to the tuple-style step
StepObservations ==
  { DictObs(<< <<"text", "t">>, <<"state", "s">> >>),
    DictObs(<< <<"state", "t">> >>),
    DictObs(<< <<"data", "d">> >>),
    PlainObs("t") }

StepInfos == {None, Some([task_description |-> "task"]), Some([other |-> "x"])}

\* ------------------------------------------------------------------------
\* Calls of env.step
\* ------------------------------------------------------------------------
Call(act, o) == [name |-> act.name, arg |-> act.arg, raised |-> o.kind = "raise"]

\* env.step(act) ends as o: the call is logged and the environment moves
EnvStep(act, o) ==
  /\ o \in EnvOutcomes
  /\ calls' = Append(calls, Call(act, o))
  /\ IF o.kind = "return"
     THEN /\ env_score' = o.obs.current_position_score
          /\ env_done' = (env_done \/ o.done)
     ELSE UNCHANGED env_state

\* obs, step_reward = env.step(...)
TakeResult(o) ==
  /\ obs' = o.obs
  /\ step_reward' = o.reward

\* the frame of a call that ends: run_episode's locals are gone
DropLocals ==
  /\ pc' = "idle"
  /\ max_steps' = 0
  /\ step_count' = 0
  /\ obs' = NoObs
  /\ step_reward' = 0
  /\ feedback_history' = <<>>
  /\ exc' = NoExc

\* an exception leaves run_episode
Propagate(e) ==
  /\ outcome' = [kind |-> "raised", exc |-> e, step |-> step_count]
  /\ DropLocals

\* a new call of the wrapper's interface starts from the idle wrapper
NewCall ==
  /\ pc = "idle"
  /\ agent_response' = ""
  /\ extraction' = "none"
  /\ action' = NoAction

\* ------------------------------------------------------------------------
\* MLEDojoWrapper.reset
\* ------------------------------------------------------------------------
\* a reset that forgets the agent
reset_KeepsHistory ==
  /\ UNCHANGED conversation_history
  /\ current_episode_reward' = 0
  /\ episode_count' = episode_count + 1
  /\ total_reward' = total_reward

\* a reset that zeroes the accumulator too
reset_ClearsTotal ==
  /\ agent_reset
  /\ current_episode_reward' = 0
  /\ episode_count' = episode_count + 1
  /\ total_reward' = 0

reset ==
  /\ agent_reset
  /\ current_episode_reward' = 0
  /\ episode_count' = episode_count + 1
  /\ total_reward' = total_reward

CallReset ==
  /\ NewCall
  /\ episode_count < MaxEpisodes
  /\ reset
  /\ calls' = <<>>
  /\ outcome' = NoOutcome
  /\ UNCHANGED <<pc, max_steps, step_count, obs, step_reward,
                 feedback_history, exc, env_state>>
  /\ model_call' = NoModelCall
  /\ UNCHANGED <<episode_start_total, call_vars>>

\* ------------------------------------------------------------------------
\* MLEDojoWrapper.step (the tuple-style contract)
\* ------------------------------------------------------------------------
StepContext(info) ==
  IF info # None /\ "task_description" \in DOMAIN info[1]
  THEN [task_description |-> info[1].task_description]
  ELSE EmptyDict

\* a step that counts an episode when the environment says done
step_CountsEpisodeOnDone(observation, reward, done, info, response) ==
  /\ IF reward # None
     THEN /\ current_episode_reward' = current_episode_reward + reward[1]
          /\ total_reward' = total_reward + reward[1]
     ELSE UNCHANGED <<current_episode_reward, total_reward>>
  /\ generate_response(_format_observation(observation), StepContext(info),
                       response)
  /\ outcome' = [ kind |-> "step_returned", action |-> response,
                  reward |-> reward, done |-> done, info |-> info ]
  /\ episode_count' = IF done THEN episode_count + 1 ELSE episode_count

step(observation, reward, done, info, response) ==
  /\ IF reward # None
     THEN /\ current_episode_reward' = current_episode_reward + reward[1]
          /\ total_reward' = total_reward + reward[1]
     ELSE UNCHANGED <<current_episode_reward, total_reward>>
  /\ generate_response(_format_observation(observation), StepContext(info),
                       response)
  /\ outcome' = [ kind |-> "step_returned", action |-> response,
                  reward |-> reward, done |-> done, info |-> info ]
  /\ UNCHANGED episode_count

CallStep ==
  /\ NewCall
  /\ Len(conversation_history) < MaxHistory
  /\ \E observation \in StepObservations, info \in StepInfos,
        reward \in {None} \cup {Some(r) : r \in Rewards},
        done \in BOOLEAN, response \in Responses :
       step(observation, reward, done, info, response)
  /\ calls' = <<>>
  /\ UNCHANGED <<pc, max_steps, step_count, obs, step_reward,
                 feedback_history, exc, env_state>>
  /\ UNCHANGED <<episode_start_total, call_vars>>

\* ------------------------------------------------------------------------
\* MLEDojoWrapper.run_episode
\* ------------------------------------------------------------------------
\* run_episode(env, max_steps = limit) is entered: self.reset()
run_episode_enter(limit) ==
  /\ NewCall
  /\ episode_count < MaxEpisodes
  /\ reset
  /\ max_steps' = limit
  /\ pc' = "init"
  /\ calls' = <<>>
  /\ outcome' = NoOutcome
  /\ env_score' = 0
  /\ env_done' = FALSE
  /\ UNCHANGED <<step_count, obs, step_reward, feedback_history, exc>>
  /\ episode_start_total' = total_reward
  /\ model_call' = NoModelCall
  /\ UNCHANGED call_vars

\* the callers of Spec pass a limit of 1..MaxSteps
run_episode_reset == \E m \in 1..MaxSteps : run_episode_enter(Some(m))

\* the initial request, the locals, the baseline score
run_episode_init ==
  /\ pc = "init"
  /\ \E o \in EnvOutcomes :
       \* a fresh competition is not complete before the first submission
       /\ o.kind = "return" => ~o.done
       /\ EnvStep(InitialAction, o)
       /\ IF o.kind = "raise"
          THEN /\ Propagate(o.exc)
               /\ UNCHANGED <<wrapper_fields>>
          ELSE /\ TakeResult(o)
               /\ step_count' = 0
               /\ max_steps' = OrDefault(max_steps)
               /\ feedback_history' = <<>>
               /\ current_episode_reward' = Get(o.obs, "current_position_score", 0)
               /\ pc' = IF OrDefault(max_steps) >= 1 THEN "generate" ELSE "return"
               /\ UNCHANGED <<episode_count, total_reward, exc, outcome>>
  /\ UNCHANGED <<conversation_history, agent_response, extraction, action>>
  /\ UNCHANGED <<episode_start_total, model_call, call_vars>>

\* a context numbered by the loop variable, from 0
LoopContext_StepFromZero ==
  [ step |-> step_count,
    max_steps |-> max_steps,
    current_reward |-> Get(obs, "current_position_score", 0),
    best_reward |-> Get(obs, "best_position_score", 0),
    feedback |-> FeedbackOf(obs) ]

\* the context run_episode hands to the agent, built after step_count += 1
LoopContext ==
  [ step |-> step_count + 1,
    max_steps |-> max_steps,
    current_reward |-> Get(obs, "current_position_score", 0),
    best_reward |-> Get(obs, "best_position_score", 0),
    feedback |-> FeedbackOf(obs) ]

\* top of the loop body: count the step, ask the model
step_generate ==
  /\ pc = "generate"
  /\ step_count' = step_count + 1
  /\ \E response \in Responses :
       /\ generate_response(FeedbackOf(obs), LoopContext, response)
       /\ agent_response' = response
  /\ calls' = <<>>
  /\ extraction' = "none"
  /\ action' = NoAction
  /\ exc' = NoExc
  /\ pc' = "resolve"
  /\ UNCHANGED <<wrapper_fields, max_steps, obs, step_reward,
                 feedback_history, outcome, env_state>>
  /\ UNCHANGED <<episode_start_total, call_vars>>

\* the try body up to the submission: indicator test and extraction
step_resolve ==
  /\ pc = "resolve"
  /\ IF HasCodeIndicator(agent_response)
     THEN IF ExtractionOf[agent_response].ok
          THEN /\ extraction' = "ok"
               /\ action' = ExecuteCode(ExtractionOf[agent_response].code)
               /\ exc' = NoExc
               /\ pc' = "submit"
          ELSE /\ extraction' = "failed"
               /\ action' = NoAction
               /\ exc' = ValueErrorOf(ExtractionOf[agent_response])
               /\ pc' = "fallback"
     ELSE /\ extraction' = "skipped"
          /\ action' = NoCodeAction
          /\ exc' = NoExc
          /\ pc' = "submit"
  /\ UNCHANGED <<wrapper_fields, conversation_history, max_steps, step_count,
                 obs, step_reward, feedback_history, agent_response, calls,
                 outcome, env_state>>
  /\ model_call' = NoModelCall
  /\ UNCHANGED <<episode_start_total, call_vars>>

\* the submission inside the try body
step_submit ==
  /\ pc = "submit"
  /\ \E o \in EnvOutcomes :
       /\ EnvStep(action, o)
       /\ IF o.kind = "return"
          THEN /\ TakeResult(o)
               /\ pc' = "update"
               /\ UNCHANGED exc
          ELSE /\ exc' = o.exc
               /\ pc' = IF o.exc.type = "ValueError" THEN "fallback" ELSE "recover"
               /\ UNCHANGED <<obs, step_reward>>
  /\ UNCHANGED <<wrapper_fields, conversation_history, max_steps, step_count,
                 feedback_history, agent_response, extraction, action, outcome>>
  /\ UNCHANGED <<episode_start_total, model_call, call_vars>>

\* except ValueError: request information instead
step_fallback ==
  /\ pc = "fallback"
  /\ \E o \in EnvOutcomes :
       /\ EnvStep(FallbackAction, o)
       /\ IF o.kind = "return"
          THEN /\ TakeResult(o)
               /\ pc' = "update"
               /\ UNCHANGED <<max_steps, step_count, feedback_history, exc, outcome>>
          ELSE Propagate(o.exc)
  /\ UNCHANGED <<wrapper_fields, conversation_history, agent_response,
                 extraction, action>>
  /\ UNCHANGED <<episode_start_total, model_call, call_vars>>

\* except Exception: one recovery request, else a made-up observation
step_recover ==
  /\ pc = "recover"
  /\ \E o \in EnvOutcomes :
       /\ EnvStep(RecoveryAction, o)
       /\ IF o.kind = "return"
          THEN TakeResult(o)
          ELSE /\ obs' = DegradedObs(exc)
               /\ step_reward' = 0
  /\ pc' = "update"
  /\ UNCHANGED <<wrapper_fields, conversation_history, max_steps, step_count,
                 feedback_history, step_locals, outcome>>
  /\ UNCHANGED <<episode_start_total, model_call, call_vars>>

\* a step that accumulates the score instead of the step's reward
step_update_AddsScore ==
  /\ pc = "update"
  /\ current_episode_reward' = Get(obs, "current_position_score", 0)
  /\ total_reward' = total_reward + Get(obs, "current_position_score", 0)
  /\ feedback_history' = Append(feedback_history, StepRecord(step_count, obs, step_reward))
  /\ pc' = IF step_count < max_steps THEN "generate" ELSE "return"
  /\ UNCHANGED <<episode_count, conversation_history, max_steps, step_count,
                 obs, step_reward, step_locals, calls, outcome, env_state>>
  /\ UNCHANGED <<episode_start_total, model_call, call_vars>>

\* a step that goes on without its ledger entry
step_update_SkipsLedger ==
  /\ pc = "update"
  /\ current_episode_reward' = Get(obs, "current_position_score", 0)
  /\ total_reward' = total_reward + step_reward
  /\ feedback_history' = feedback_history
  /\ pc' = IF step_count < max_steps THEN "generate" ELSE "return"
  /\ UNCHANGED <<episode_count, conversation_history, max_steps, step_count,
                 obs, step_reward, step_locals, calls, outcome, env_state>>
  /\ UNCHANGED <<episode_start_total, model_call, call_vars>>

\* update reward tracking, append to the ledger, next iteration or leave
step_update ==
  /\ pc = "update"
  /\ current_episode_reward' = Get(obs, "current_position_score", 0)
  /\ total_reward' = total_reward + step_reward
  /\ feedback_history' = Append(feedback_history, StepRecord(step_count, obs, step_reward))
  /\ pc' = IF step_count < max_steps THEN "generate" ELSE "return"
  /\ UNCHANGED <<episode_count, conversation_history, max_steps, step_count,
                 obs, step_reward, step_locals, calls, outcome, env_state>>
  /\ UNCHANGED <<episode_start_total, model_call, call_vars>>

\* return {...}
run_episode_return ==
  /\ pc = "return"
  /\ outcome' = [kind |-> "returned", value |-> EpisodeResult]
  /\ DropLocals
  /\ UNCHANGED <<wrapper_fields, conversation_history, agent_response,
                 extraction, action, calls, env_state>>
  /\ UNCHANGED <<episode_start_total, model_call, call_vars>>

Next ==
  \/ CallReset
  \/ CallStep
  \/ run_episode_reset
  \/ run_episode_init
  \/ step_generate
  \/ step_resolve
  \/ step_submit
  \/ step_fallback
  \/ step_recover
  \/ step_update
  \/ run_episode_return

Spec == Init /\ [][Next]_vars

TypeOK ==
  /\ episode_count \in 0..MaxEpisodes
  /\ pc \in {"idle", "init", "generate", "resolve", "submit", "fallback",
             "recover", "update", "return"}
  /\ step_count \in 0..MaxSteps
  /\ extraction \in {"none", "skipped", "ok", "failed"}
  /\ env_done \in BOOLEAN
  /\ env_score \in Scores

\* ------------------------------------------------------------------------
\* _extract_code and _clean_code on their own: a response is a sequence of
\* blocks joined by newlines, a code text is a sequence of lines
\* ------------------------------------------------------------------------
RECURSIVE Repeat(_, _)
Repeat(s, n) == IF n = 0 THEN "" ELSE s \o Repeat(s, n - 1)

LongComment == "# " \o Repeat("c", 60)

LongAssignment == "# so x = 1" \o Repeat(" word", 14)

TaggedFenceKinds ==
  {"py_valid", "py_noted", "py_broken", "py_empty", "py_commented",
   "py_note_only"}
XmlKinds == {"xml_valid", "xml_pair"}
ProseKinds == {"prose", "long_prose", "aside"}
LineKinds ==
  ProseKinds \cup {"starter", "code", "def_line", "body_line", "blank",
                   "long_assign"}
BlockKinds == TaggedFenceKinds \cup {"bare_valid"} \cup XmlKinds \cup LineKinds

\* the language tag a fenced block opens with
BlockTag(kind) ==
  CASE kind = "py_valid"     -> "python"
    [] kind = "py_noted"     -> "python"
    [] kind = "py_broken"    -> "py"
    [] kind = "py_empty"     -> "python"
    [] kind = "py_commented" -> "py"
    [] kind = "py_note_only" -> "python"
    [] OTHER                 -> ""

\* what stands between the fences or the tags; for a line, the line
BlockBody(kind) ==
  CASE kind = "py_valid"     -> "import os\n"
    [] kind = "py_noted"     -> "x = 1\nNote: sets x\n"
    [] kind = "py_broken"    -> "x = (\n"
    [] kind = "py_empty"     -> ""
    [] kind = "py_commented" -> "import os\n" \o LongComment \o "\nOutput: is none\n# kept\n"
    [] kind = "py_note_only" -> "Note: it does nothing\n"
    [] kind = "bare_valid"   -> "print(x)\n"
    [] kind = "xml_valid"    -> "x = 1"
    [] kind = "xml_pair"     -> "x = 1\nprint(x)"
    [] kind = "prose"        -> "Sure, I did that."
    [] kind = "long_prose"   -> Repeat("word word ", 21)
    [] kind = "aside"        -> "This will print x"
    [] kind = "starter"      -> "import os"
    [] kind = "code"         -> "print(x)"
    [] kind = "def_line"     -> "def f(x):"
    [] kind = "body_line"    -> "    pass  # ok?"
    [] kind = "blank"        -> ""
    [] kind = "long_assign"  -> LongAssignment

BlockText(kind) ==
  IF kind \in TaggedFenceKinds \cup {"bare_valid"}
  THEN Fence \o BlockTag(kind) \o "\n" \o BlockBody(kind) \o Fence
  ELSE IF kind \in XmlKinds THEN "<code>" \o BlockBody(kind) \o "</code>"
  ELSE BlockBody(kind)

BlockSeqs == UNION {[1..n -> BlockKinds] : n \in 1..MaxBlocks}

Render(blocks) == JoinLines([n \in 1..Len(blocks) |-> BlockText(blocks[n])])

CodeLines ==
  { "x = 1", "  print(x)", "x = (", "", "# short", LongComment,
    "Note: sets x", "  This will run", "The above works", "Output: is 1" }

LineSeqs == UNION {[1..n -> CodeLines] : n \in 1..MaxLines}

ExtractInit ==
  /\ InitWrapper
  /\ \/ \E blocks \in BlockSeqs :
          arg = [fn |-> "_extract_code", blocks |-> blocks,
                 response |-> Render(blocks)]
     \/ \E lines \in LineSeqs :
          arg = [fn |-> "_clean_code", lines |-> lines,
                 code |-> JoinLines(lines)]
  /\ result = NoResult

CallExtractCode ==
  /\ arg.fn = "_extract_code"
  /\ ~result.returned
  /\ result' = [returned |-> TRUE, out |-> _extract_code(arg.response)]
  /\ UNCHANGED <<wrapper_vars, arg>>

CallCleanCode ==
  /\ arg.fn = "_clean_code"
  /\ ~result.returned
  /\ result' = [returned |-> TRUE, out |-> _clean_code(arg.code)]
  /\ UNCHANGED <<wrapper_vars, arg>>

ExtractNext ==
  \/ CallExtractCode
  \/ CallCleanCode

ExtractSpec == ExtractInit /\ [][ExtractNext]_vars

\* the call of _extract_code has returned or raised
Extracted == arg.fn = "_extract_code" /\ result.returned
Cleaned == arg.fn = "_clean_code" /\ result.returned

\* inputs of the prompt functions
PromptObservations == {"Score improved", "Submission failed"}

Turns ==
  { [observation |-> "overview text", response |-> "look at the data"],
    [observation |-> "traceback", response |-> "fix the bug"] }

Histories == UNION {[1..n -> Turns] : n \in 0..MaxEntries}

Contexts ==
  { None,
    Some(EmptyDict),
    Some([step |-> "1"]),
    Some([task_description |-> "Predict prices"]),
    Some([task_description |-> "Predict prices", step |-> "1"]) }

PromptInit ==
  /\ InitWrapper
  /\ \/ \E observation \in PromptObservations, context \in Contexts,
           history \in {None} \cup {Some(h) : h \in Histories} :
          arg = [fn |-> "build_prompt", observation |-> observation,
                 history |-> history, context |-> context]
     \/ \E history \in Histories, max_turns \in 0..MaxTurns :
          arg = [fn |-> "_format_history", history |-> history,
                 max_turns |-> max_turns]
  /\ result = NoResult

CallBuildPrompt ==
  /\ arg.fn = "build_prompt"
  /\ ~result.returned
  /\ result' = [returned |-> TRUE,
                out |-> build_prompt(arg.observation, arg.history, arg.context)]
  /\ UNCHANGED <<wrapper_vars, arg>>

CallFormatHistory ==
  /\ arg.fn = "_format_history"
  /\ ~result.returned
  /\ result' = [returned |-> TRUE,
                out |-> _format_history(arg.history, arg.max_turns)]
  /\ UNCHANGED <<wrapper_vars, arg>>

PromptNext ==
  \/ CallBuildPrompt
  \/ CallFormatHistory

PromptSpec == PromptInit /\ [][PromptNext]_vars

Built == arg.fn = "build_prompt" /\ result.returned
Formatted == arg.fn = "_format_history" /\ result.returned

\* ------------------------------------------------------------------------
\* The history store on its own: update_history, reset and get_history
\* called in any order
\* ------------------------------------------------------------------------
\* BaseAgent.get_history
get_history == conversation_history

\* everything but the history store
beside_history ==
  << episode_count, total_reward, current_episode_reward, pc, max_steps,
     step_count, obs, step_reward, feedback_history, agent_response,
     extraction, action, exc, calls, outcome, env_score, env_done,
     episode_start_total, model_call >>

HistoryObservations == {"overview text", "traceback"}
HistoryResponses == {"look at the data", "fix the bug"}

CallUpdateHistory ==
  /\ Len(conversation_history) < MaxEntries
  /\ \E observation \in HistoryObservations, response \in HistoryResponses :
       /\ update_history(observation, response)
       /\ arg' = [fn |-> "update_history", observation |-> observation,
                  response |-> response]
  /\ result' = [returned |-> TRUE, out |-> None]
  /\ UNCHANGED beside_history

CallAgentReset ==
  /\ agent_reset
  /\ arg' = [fn |-> "reset"]
  /\ result' = [returned |-> TRUE, out |-> None]
  /\ UNCHANGED beside_history

CallGetHistory ==
  /\ arg' = [fn |-> "get_history"]
  /\ result' = [returned |-> TRUE, out |-> get_history]
  /\ UNCHANGED <<conversation_history, beside_history>>

HistoryNext ==
  \/ CallUpdateHistory
  \/ CallAgentReset
  \/ CallGetHistory

HistorySpec == Init /\ [][HistoryNext]_vars

\* ------------------------------------------------------------------------
\* Properties
\* ------------------------------------------------------------------------
\* the env.step calls of a step are over: the step goes on to its state
\* update, or an exception has left run_episode from inside the loop
RaisedInLoop == pc = "idle" /\ outcome.kind = "raised" /\ outcome.step >= 1
SubmissionsOver == pc = "update" \/ RaisedInLoop

\* the step's state update has just been done
StepCompleted == pc \in {"generate", "return"} /\ step_count >= 1

IsRequest(call, info_type) ==
  call.name = "request_info" /\ call.arg = info_type

\* C1: whatever the model answers and whichever environment submissions
\* raise inside the step loop, run_episode does not raise, and it leaves
\* the loop only after max_steps steps.
C1_NeverRaisesInLoop ==
  /\ ~RaisedInLoop
  /\ pc = "return" => step_count = max_steps

\* C2: when the submission of a step's resolved action raises, exactly one
\* recovery submission is made in that step, and it is
\* request_info(info_type="overview").
C2_OneOverviewRecovery ==
  (SubmissionsOver /\ Len(calls) >= 1 /\ calls[1].raised)
    => (Len(calls) = 2 /\ IsRequest(calls[2], "overview"))

\* C3: when the environment raises on the primary and on the recovery
\* submission of a step, the episode goes on: the step gets a ledger record
\* with reward 0.0 and action_status "ERROR".
C3_DegradedStepRecorded ==
  (Len(calls) = 2 /\ calls[1].raised /\ calls[2].raised)
    => /\ ~RaisedInLoop
       /\ StepCompleted =>
            /\ Len(feedback_history) = step_count
            /\ feedback_history[step_count].reward = 0
            /\ feedback_history[step_count].action_status = "ERROR"

\* C4: when extraction was attempted on the step's response and failed, the
\* step submits request_info(info_type="data_structure") and never
\* execute_code, and the exception that may leave run_episode is not the
\* extraction error.
C4_ExtractionFailureFallsBack ==
  extraction = "failed"
    => /\ \A n \in 1..Len(calls) : calls[n].name # "execute_code"
       /\ Len(calls) >= 1 => IsRequest(calls[1], "data_structure")
       /\ (SubmissionsOver \/ StepCompleted) => Len(calls) >= 1
       /\ RaisedInLoop => outcome.exc # ExtractionError(agent_response)

C4_Witness ==
  /\ extraction = "failed"
  /\ pc = "update"
  /\ Len(calls) = 1
  /\ IsRequest(calls[1], "data_structure")
  /\ ~calls[1].raised

\* C5: the ledger has one record per completed step, the record at
\* 0-based position i carries step index i+1, the returned steps_taken is
\* the ledger's length, and every run_episode call starts from an empty
\* ledger.
LedgerNumbered(ledger) == \A i \in 1..Len(ledger) : ledger[i].step = i

C5_LedgerMatchesSteps ==
  /\ LedgerNumbered(feedback_history)
  /\ pc \in {"resolve", "submit", "fallback", "recover", "update"}
       => Len(feedback_history) = step_count - 1
  /\ pc \in {"generate", "return"} => Len(feedback_history) = step_count
  /\ outcome.kind = "returned"
       => /\ outcome.value.steps_taken = Len(outcome.value.feedback_history)
          /\ LedgerNumbered(outcome.value.feedback_history)

C5_Witness ==
  /\ outcome.kind = "returned"
  /\ episode_count = 2
  /\ outcome.value.steps_taken = 2
  /\ Len(outcome.value.feedback_history) = 2
  /\ outcome.value.feedback_history[2].action_status = "ERROR"

\* C6: after every completed step current_episode_reward is the current
\* score most recently observed from the environment, the step's ledger
\* record carries it as cumulative_score, and the returned
\* final_position_score equals current_episode_reward.
C6_RewardTracksEnvScore ==
  /\ StepCompleted
       => /\ current_episode_reward = env_score
          /\ feedback_history[Len(feedback_history)].cumulative_score
               = current_episode_reward
  /\ outcome.kind = "returned"
       => outcome.value.final_position_score
            = outcome.value.stats.current_episode_reward

\* C7: run_episode ends when max_steps steps are done or when the
\* environment signals completion, whichever comes first: once completion
\* is signalled there is no further model call or environment submission.
C7_StopsWhenEnvDone ==
  /\ pc \in {"resolve", "submit", "fallback", "recover"} => ~env_done
  /\ pc = "return" => (step_count = max_steps \/ env_done)

\* C8: extraction is attempted exactly when the response contains a code
\* fence marker, a code tag marker or the import pattern; otherwise the
\* extractor is not called and the step submits request_info.
ClaimedIndicator(response) ==
  \/ Contains(response, Fence)
  \/ Contains(response, "<code>")
  \/ Contains(response, "import ")

C8_ExtractionIffIndicator ==
  extraction # "none"
    => /\ (extraction # "skipped") <=> ClaimedIndicator(agent_response)
       /\ (extraction = "skipped" /\ Len(calls) >= 1)
            => calls[1].name = "request_info"

\* C9: every call of MLEDojoWrapper.reset, made on its own or at the start
\* of run_episode, leaves current_episode_reward at 0.0, adds exactly 1 to
\* episode_count, empties the agent's history and does not change
\* total_reward.
C9_ResetPostcondition ==
  [][(CallReset \/ run_episode_reset)
       => /\ current_episode_reward' = 0
          /\ episode_count' = episode_count + 1
          /\ conversation_history' = <<>>
          /\ total_reward' = total_reward]_vars

C9_Witness ==
  /\ pc = "idle"
  /\ outcome = NoOutcome
  /\ episode_count = 2
  /\ conversation_history = <<>>
  /\ current_episode_reward = 0
  /\ total_reward # 0

\* C10 (as stated): total_reward never decreases.
C10_TotalRewardMonotonic == [][total_reward' >= total_reward]_vars

\* C10 (amended): total_reward is never reset or reassigned; it changes only
\* by the addition of the reward a step received, so it decreases only when
\* that reward is negative.
AddsStepReward ==
  /\ pc = "update"
  /\ total_reward' = total_reward + step_reward

AddsTupleReward ==
  /\ pc = "idle"
  /\ outcome'.kind = "step_returned"
  /\ outcome'.reward # None
  /\ total_reward' = total_reward + outcome'.reward[1]

C10_TotalRewardOnlyAccumulates ==
  [][/\ total_reward' # total_reward => (AddsStepReward \/ AddsTupleReward)
     /\ total_reward' < total_reward
          => \/ AddsStepReward /\ step_reward < 0
             \/ AddsTupleReward /\ outcome'.reward[1] < 0]_vars

C10_Witness ==
  /\ pc = "return"
  /\ episode_count = 2
  /\ total_reward = 2 * MaxSteps

\* ------------------------------------------------------------------------
\* C11  Inside run_episode total_reward is its value on entry plus the sum
\* of the reward fields of the ledger so far: the initial request adds
\* nothing, every completed step adds exactly the reward its record
\* shows, a degraded step shows and adds 0, and the returned statistics
\* carry that total.
\* ------------------------------------------------------------------------
RECURSIVE SumRewards(_)
SumRewards(ledger) ==
  IF ledger = <<>> THEN 0
  ELSE Head(ledger).reward + SumRewards(Tail(ledger))

DegradedAddNothing(ledger) ==
  \A i \in 1..Len(ledger) :
    ledger[i].action_status = "ERROR" => ledger[i].reward = 0

C11_TotalGrowsByLedgerRewards ==
  /\ pc = "init" => total_reward = episode_start_total
  /\ pc \in {"generate", "resolve", "submit", "fallback", "recover",
             "update", "return"}
       => /\ total_reward = episode_start_total + SumRewards(feedback_history)
          /\ DegradedAddNothing(feedback_history)
  /\ (pc = "idle" /\ outcome.kind = "returned")
       => /\ total_reward
               = episode_start_total + SumRewards(outcome.value.feedback_history)
          /\ outcome.value.stats.total_reward = total_reward
          /\ DegradedAddNothing(outcome.value.feedback_history)

\* a second episode has returned with a rewarded step and a degraded step
C11_Witness ==
  /\ pc = "idle"
  /\ outcome.kind = "returned"
  /\ episode_start_total # 0
  /\ Len(outcome.value.feedback_history) = 2
  /\ SumRewards(outcome.value.feedback_history) # 0
  /\ \E i \in 1..2 : outcome.value.feedback_history[i].action_status = "ERROR"

\* ------------------------------------------------------------------------
\* C12  _extract_code returns the first candidate of the pool whose trimmed
\* text is not empty and parses, directly or after cleanup: the trimmed
\* text itself if that parses, else the cleaned text.  A response whose only
\* python-tagged fenced block is valid gives that block's trimmed content.
\* ------------------------------------------------------------------------
Usable(text) ==
  text # "" /\ (PyParses(text) \/ PyParses(_clean_code(text)))

SinglePythonBlock(blocks) ==
  /\ Cardinality({n \in 1..Len(blocks) : blocks[n] \in TaggedFenceKinds}) = 1
  /\ \E n \in 1..Len(blocks) : blocks[n] = "py_valid"

C12_ReturnsFirstParsingCandidate ==
  Extracted =>
    LET pool   == CandidatePool(arg.response)
        usable == {n \in 1..Len(pool) : Usable(Strip(pool[n]))}
    IN  /\ usable # {} =>
             LET first == Strip(pool[SetMin(usable)])
             IN  /\ result.out.ok
                 /\ result.out.code =
                      IF PyParses(first) THEN first ELSE _clean_code(first)
        /\ SinglePythonBlock(arg.blocks) =>
             /\ result.out.ok
             /\ result.out.code = Strip(BlockBody("py_valid"))

\* the first candidate fails both parses, the second parses after cleanup
C12_Witness ==
  /\ Extracted
  /\ arg.blocks = <<"py_broken", "py_noted">>
  /\ result.out.ok
  /\ result.out.code = "x = 1"

\* ------------------------------------------------------------------------
\* C13  With a python-tagged fenced block in the response the fenced
\* candidates are the tagged blocks only and an untagged block's content is
\* never returned; with untagged fenced blocks only, those are the fenced
\* candidates and the first one's content is returned.
\* ------------------------------------------------------------------------
BodiesOf(blocks, kinds) ==
  LET chosen == SelectSeq(blocks, LAMBDA k : k \in kinds)
  IN  [n \in 1..Len(chosen) |-> BlockBody(chosen[n])]

C13_UntaggedOnlyWithoutTagged ==
  Extracted =>
    LET tagged == BodiesOf(arg.blocks, TaggedFenceKinds)
        bare   == BodiesOf(arg.blocks, {"bare_valid"})
        xml    == BodiesOf(arg.blocks, XmlKinds)
        pool   == CandidatePool(arg.response)
    IN  /\ tagged # <<>> =>
             /\ pool = tagged \o xml
             /\ result.out.code # Strip(BlockBody("bare_valid"))
        /\ (tagged = <<>> /\ bare # <<>>) =>
             /\ pool = bare \o xml
             /\ result.out.ok
             /\ result.out.code = Strip(BlockBody("bare_valid"))

\* an untagged valid block and a tagged broken one: extraction fails
C13_Witness ==
  /\ Extracted
  /\ arg.blocks = <<"bare_valid", "py_broken">>
  /\ ~result.out.ok

\* ------------------------------------------------------------------------
\* C14  For a response of plain lines (no fence, no <code> tag): if a line
\* starting with an import or definition keyword is followed by a code
\* line, the pool holds a candidate; if every line is prose, the call
\* raises the extraction error.
\* ------------------------------------------------------------------------
KeywordLineThenCode(blocks) ==
  \E n \in 1..(Len(blocks) - 1) :
    /\ blocks[n] \in {"starter", "def_line"}
    /\ blocks[n + 1] \in {"code", "body_line"}

C14_HeuristicYieldsCandidate ==
  (Extracted /\ \A n \in 1..Len(arg.blocks) : arg.blocks[n] \in LineKinds) =>
    /\ KeywordLineThenCode(arg.blocks) => CandidatePool(arg.response) # <<>>
    /\ (\A n \in 1..Len(arg.blocks) : arg.blocks[n] \in ProseKinds) =>
         ~result.out.ok

\* ------------------------------------------------------------------------
\* C15  The cleanup drops the lines whose trimmed text begins with
\* "Note:", "This will", "The above" or "Output:" and the comment lines
\* longer than 50 characters, and keeps every other line in order (the
\* joined text is trimmed at both ends).  A candidate that needs the cleanup
\* is returned without the dropped lines when the cleaned text parses; when
\* it does not, the next candidate is tried.
\* ------------------------------------------------------------------------
DroppedByCleanup(line) ==
  LET trimmed == Strip(line)
  IN  \/ \E marker \in {"Note:", "This will", "The above", "Output:"} :
           StartsWith(trimmed, marker)
      \/ (StartsWith(trimmed, "#") /\ Len(trimmed) > 50)

C15_CleanupDropsExplanations ==
  /\ Cleaned =>
       result.out =
         Strip(JoinLines(SelectSeq(arg.lines, LAMBDA l : ~DroppedByCleanup(l))))
  /\ Extracted =>
       /\ arg.blocks[1] = "py_noted" =>
            result.out.ok /\ result.out.code = "x = 1"
       /\ arg.blocks[1] = "py_commented" =>
            result.out.ok /\ result.out.code = "import os\n# kept"
       /\ (Len(arg.blocks) >= 2 /\ arg.blocks[1] = "py_broken"
             /\ arg.blocks[2] = "py_noted") =>
            result.out.ok /\ result.out.code = "x = 1"
       /\ (\A n \in 1..Len(arg.blocks) : arg.blocks[n] = "py_broken") =>
            ~result.out.ok

\* a block with a long comment, a marker line and a short comment
C15_Witness ==
  /\ Extracted
  /\ arg.blocks = <<"py_commented">>
  /\ result.out.code = "import os\n# kept"

\* ------------------------------------------------------------------------
\* C16  _extract_code raises exactly when every candidate of the pool (an
\* empty pool included) is empty or fails both the direct parse and the
\* parse after cleanup; the preview in the error is the first 200
\* characters of the response, the whole response when it is shorter.
\* ------------------------------------------------------------------------
FailsBothParses(text) == ~PyParses(text) /\ ~PyParses(_clean_code(text))

HasTask(context) == context # None /\ "task_description" \in DOMAIN context[1]
HasHistory(history) == history # None /\ history[1] # <<>>

TaskHeading == "## Competition Details"
HistoryHeading == "## Previous Actions and Feedback"
BareHeading == "## Current Observation"

RendersHistory(prompt, history) ==
  \/ Contains(prompt, "### Turn")
  \/ \E n \in 1..Len(history) :
       \/ Contains(prompt, history[n].observation)
       \/ Contains(prompt, history[n].response)

C17_TemplatePriority ==
  Built =>
    LET prompt == result.out
        task    == HasTask(arg.context)
        past    == HasHistory(arg.history)
    IN  /\ StartsWith(prompt, SYSTEM_PROMPT \o "\n")
        /\ Contains(prompt, arg.observation)
        /\ Contains(prompt, TaskHeading) <=> task
        /\ Contains(prompt, HistoryHeading) <=> (~task /\ past)
        /\ Contains(prompt, BareHeading) <=> (~task /\ ~past)
        /\ task => /\ Contains(prompt, arg.context[1].task_description)
                   /\ past => ~RendersHistory(prompt, arg.history[1])
        /\ (~task /\ past) =>
             Contains(prompt, _format_history(arg.history[1], DEFAULT_MAX_TURNS))

\* a task description together with a history of two turns
C17_Witness ==
  /\ Built
  /\ HasTask(arg.context)
  /\ HasHistory(arg.history)
  /\ Len(arg.history[1]) = 2
  /\ Contains(result.out, TaskHeading)

\* ------------------------------------------------------------------------
\* C18  For every history and every max_turns >= 0, _format_history renders
\* exactly the last min(len(history), max_turns) entries, oldest first, and
\* numbers them 1, 2, ... inside that window.
\* ------------------------------------------------------------------------
ExpectedTurn(k, turn) ==
  "### Turn " \o ToString(k) \o "\n"
    \o "**Observation:** " \o turn.observation \o "\n"
    \o "**Response:** " \o turn.response \o "\n"

C18_RendersLastMaxTurns ==
  Formatted =>
    LET history == arg.history
        size    == IF Len(history) < arg.max_turns
                   THEN Len(history) ELSE arg.max_turns
        window  == [k \in 1..size |-> history[Len(history) - size + k]]
    IN  result.out = JoinLines([k \in 1..size |-> ExpectedTurn(k, window[k])])

\* ------------------------------------------------------------------------
\* C19  The history is an append-only log: a call of update_history adds
\* the pair it was given at the end and leaves the earlier pairs as they
\* were, a call of reset empties the history, get_history returns the
\* history as it stands, and nothing else changes it.
\* ------------------------------------------------------------------------
AppendsThePair ==
  /\ arg'.fn = "update_history"
  /\ Len(conversation_history') = Len(conversation_history) + 1
  /\ \A n \in 1..Len(conversation_history) :
       conversation_history'[n] = conversation_history[n]
  /\ conversation_history'[Len(conversation_history')].observation
       = arg'.observation
  /\ conversation_history'[Len(conversation_history')].response
       = arg'.response

RemovesAll == arg'.fn = "reset" /\ conversation_history' = <<>>

ReadsAll ==
  /\ arg'.fn = "get_history"
  /\ result'.out = conversation_history
  /\ conversation_history' = conversation_history

C19_HistoryAppendOnly == [][AppendsThePair \/ RemovesAll \/ ReadsAll]_vars

\* get_history has returned two different pairs in append order
C19_Witness ==
  /\ arg.fn = "get_history"
  /\ result.returned
  /\ Len(result.out) = 3
  /\ result.out[1].observation = "traceback"
  /\ result.out[2].observation = "overview text"
  /\ result.out = conversation_history

\* ------------------------------------------------------------------------
\* C20  run_episode starts with the reset (agent history emptied,
\* current_episode_reward zeroed, episode_count one higher), then makes
\* exactly one environment request, request_info of the overview, whose
\* observation gives the baseline score and the feedback of the first
\* model call; no model call comes before these.
\* ------------------------------------------------------------------------
ResetDone ==
  pc = "init" =>
    /\ conversation_history = <<>>
    /\ current_episode_reward = 0
    /\ calls = <<>>
    /\ feedback_history = <<>>

BaselineTaken ==
  (pc = "generate" /\ step_count = 0) =>
    /\ calls = <<[name |-> "request_info", arg |-> "overview", raised |-> FALSE]>>
    /\ conversation_history = <<>>
    /\ current_episode_reward = obs.current_position_score
    /\ current_episode_reward = env_score

\* the text at feedback.base.feedback, the empty text without it
NestedFeedback(o) ==
  IF "feedback" \notin DOMAIN o THEN ""
  ELSE IF "base" \notin DOMAIN o.feedback THEN ""
  ELSE IF "feedback" \notin DOMAIN o.feedback.base THEN ""
  ELSE o.feedback.base.feedback

FirstModelCallSeesOverview ==
  (pc = "resolve" /\ step_count = 1) =>
    /\ Len(conversation_history) = 1
    /\ conversation_history[1].observation = NestedFeedback(obs)
    /\ conversation_history[1].response = agent_response

CountsTheEpisode ==
  (pc = "idle" /\ pc' = "init") => episode_count' = episode_count + 1

C20_EpisodeStartOrder ==
  /\ [](ResetDone /\ BaselineTaken /\ FirstModelCallSeesOverview)
  /\ [][CountsTheEpisode]_vars

\* the second episode has taken its baseline after a first one that scored
C20_Witness ==
  /\ pc = "resolve"
  /\ step_count = 1
  /\ episode_count = 2
  /\ total_reward # 0
  /\ current_episode_reward = 1

\* ------------------------------------------------------------------------
\* C21  Every call run_episode makes to the environment is a request_info
\* with info_type overview, data_structure or metric, or an execute_code
\* whose code is what _extract_code returned for the response of that
\* same step.
\* ------------------------------------------------------------------------
InfoTypes == {"overview", "data_structure", "metric"}

ConformingCall(call) ==
  \/ /\ call.name = "request_info"
     /\ call.arg \in InfoTypes
  \/ /\ call.name = "execute_code"
     /\ extraction = "ok"
     /\ agent_response \in Responses
     /\ ExtractionOf[agent_response].ok
     /\ call.arg = ExtractionOf[agent_response].code

C21_CallsConformToContract ==
  \A n \in 1..Len(calls) : ConformingCall(calls[n])

\* a step that submitted extracted code and then requested information
C21_Witness ==
  /\ Len(calls) = 2
  /\ calls[1].name = "execute_code"
  /\ calls[1].arg = "import os"
  /\ calls[2].name = "request_info"

\* ------------------------------------------------------------------------
\* C22  A call of step(observation, reward, done, info) adds reward to
\* current_episode_reward and to total_reward when reward is not None and
\* leaves both alone when it is None, leaves episode_count alone, makes one
\* call of generate_response, whose context holds task_description exactly
\* when info holds it, and returns that call's response, done or not.
\* ------------------------------------------------------------------------
TupleStep == pc = "idle" /\ outcome'.kind = "step_returned"

InfoHasTask(info) == info # None /\ "task_description" \in DOMAIN info[1]

C22_TupleStepEffects ==
  [][TupleStep =>
       /\ IF outcome'.reward # None
          THEN /\ current_episode_reward'
                    = current_episode_reward + outcome'.reward[1]
               /\ total_reward' = total_reward + outcome'.reward[1]
          ELSE /\ current_episode_reward' = current_episode_reward
               /\ total_reward' = total_reward
       /\ episode_count' = episode_count
       /\ Len(conversation_history') = Len(conversation_history) + 1
       /\ model_call'.made
       /\ model_call'.history = conversation_history
       /\ "task_description" \in DOMAIN model_call'.context
            <=> InfoHasTask(outcome'.info)
       /\ InfoHasTask(outcome'.info) =>
            model_call'.context.task_description
              = outcome'.info[1].task_description
       /\ outcome'.action
            = conversation_history'[Len(conversation_history')].response
       /\ pc' = "idle"]_vars

\* step has returned for done = TRUE, no reward and a task description
C22_Witness ==
  /\ pc = "idle"
  /\ outcome.kind = "step_returned"
  /\ outcome.done
  /\ outcome.reward = None
  /\ InfoHasTask(outcome.info)
  /\ episode_count = 1

\* ------------------------------------------------------------------------
\* C23  Each step of run_episode makes exactly two external calls in
\* sequence, one model call and then one environment call, and the model
\* call of a step comes after the state update of the step before.
\* ------------------------------------------------------------------------
\* the model call of the running step is made, its update is not
AfterModelCall ==
  /\ Len(conversation_history) = step_count
  /\ Len(feedback_history) = step_count - 1

StepsInSequence ==
  /\ pc = "generate" =>
       /\ Len(conversation_history) = step_count
       /\ Len(feedback_history) = step_count
  /\ pc = "resolve" => AfterModelCall /\ calls = <<>>
  /\ pc \in {"submit", "fallback", "recover", "update"} => AfterModelCall

FencedBodies(blocks) ==
  IF BodiesOf(blocks, TaggedFenceKinds) # <<>>
  THEN BodiesOf(blocks, TaggedFenceKinds)
  ELSE BodiesOf(blocks, {"bare_valid"})

C24_TaggedAfterFenced ==
  Extracted =>
    LET fenced == FencedBodies(arg.blocks)
        xml    == BodiesOf(arg.blocks, XmlKinds)
        pool   == CandidatePool(arg.response)
        usable == {n \in 1..Len(fenced) : Usable(Strip(fenced[n]))}
    IN  /\ xml # <<>> =>
             /\ Len(pool) = Len(fenced) + Len(xml)
             /\ \A n \in 1..Len(fenced) : pool[n] = fenced[n]
             /\ \A n \in 1..Len(xml) : pool[Len(fenced) + n] = xml[n]
        /\ usable # {} =>
             LET first == Strip(fenced[SetMin(usable)])
             IN  /\ result.out.ok
                 /\ result.out.code =
                      IF PyParses(first) THEN first ELSE _clean_code(first)

\* a valid <code> block ahead of a valid fenced block: the fenced one wins
C24_Witness ==
  /\ Extracted
  /\ arg.blocks = <<"xml_pair", "py_valid">>
  /\ CandidatePool(arg.response) = <<"import os\n", "x = 1\nprint(x)">>
  /\ result.out.ok
  /\ result.out.code = "import os"

\* ------------------------------------------------------------------------
\* C25  The line scan runs only when the fenced and the <code> strategies
\* gave no candidate at all.  When they gave one, even an empty one or only
\* candidates that fail validation, the pool holds their candidates and
\* nothing else, and extraction fails although the response has lines the
\* scan would have extracted.
\* ------------------------------------------------------------------------
StructuredBodies(blocks) == FencedBodies(blocks) \o BodiesOf(blocks, XmlKinds)

ScanWouldExtract(response) ==
  LET code_lines == ScanLines(SplitLines(response), FALSE)
  IN  code_lines # <<>> /\ Usable(Strip(JoinLines(code_lines)))

C25_ScanOnlyWhenPoolEmpty ==
  Extracted =>
    LET structured == StructuredBodies(arg.blocks)
        pool       == CandidatePool(arg.response)
    IN  /\ structured # <<>> =>
             /\ pool = structured
             /\ (\A n \in 1..Len(structured) : ~Usable(Strip(structured[n])))
                  => ~result.out.ok
        /\ structured = <<>> => Len(pool) <= 1

\* an empty fenced block, then an import line the scan would have taken
C25_Witness ==
  /\ Extracted
  /\ arg.blocks = <<"py_empty", "starter">>
  /\ ScanWouldExtract(arg.response)
  /\ CandidatePool(arg.response) = <<"">>
  /\ ~result.out.ok

\* ------------------------------------------------------------------------
\* C26  The line scan discards every line before the first line that begins
\* with an import/definition keyword; from that line to the end of the
\* response it keeps every blank line, drops every non-blank line that
\* starts with a discourse marker, ends in "?" or ":", or has more than 15
\* words and no "=", keeps every other line, and joins the kept lines in
\* their order into one candidate.
\* ------------------------------------------------------------------------
\* the line kinds by what the claim says of them
KeywordKinds == {"starter", "def_line"}
DroppedKinds == {"aside", "def_line", "body_line", "long_prose"}
KeptKinds    == LineKinds \ DroppedKinds

ExpectedScan(blocks) ==
  LET starts == {n \in 1..Len(blocks) : blocks[n] \in KeywordKinds}
  IN  IF starts = {} THEN <<>>
      ELSE LET tail == SubSeq(blocks, SetMin(starts), Len(blocks))
               kept == SelectSeq(tail, LAMBDA k : k \in KeptKinds)
           IN  [n \in 1..Len(kept) |-> BlockText(kept[n])]

OnlyLines(blocks) == \A n \in 1..Len(blocks) : blocks[n] \in LineKinds

C26_LineScanKeepsAndDrops ==
  (Extracted /\ OnlyLines(arg.blocks)) =>
    LET expected == ExpectedScan(arg.blocks)
    IN  CandidatePool(arg.response) =
          IF expected = <<>> THEN <<>> ELSE <<JoinLines(expected)>>

\* a prose line ahead of the import line is discarded, the import is kept
C26_Witness ==
  /\ Extracted
  /\ arg.blocks = <<"prose", "starter">>
  /\ CandidatePool(arg.response) = <<"import os">>
  /\ result.out.ok
  /\ result.out.code = "import os"

\* ------------------------------------------------------------------------
\* C29  Every text _extract_code returns is non-empty and parses as Python:
\* empty candidates are skipped and never returned, also when the cleanup
\* pass removed lines from the candidate.
\* ------------------------------------------------------------------------
C29_ReturnsNonEmptyCode ==
  (Extracted /\ result.out.ok) =>
    /\ result.out.code # ""
    /\ PyParses(result.out.code)

\* a fenced block of one explanatory line: cleanup leaves nothing, and the
\* empty text is returned as the code
C29_EmptyCodeReturned ==
  /\ Extracted
  /\ arg.blocks = <<"py_note_only">>
  /\ result.out.ok
  /\ result.out.code = ""

\* ------------------------------------------------------------------------
\* C27  At step k of run_episode the model is called with, as observation,
\* the text at feedback.base.feedback of the latest observation (the
\* initial one for k = 1, else the one that ended step k-1, a made-up
\* degraded observation included), the empty text when a level of the
\* lookup is absent, and with a context whose step is k, whose max_steps
\* is the step limit of the episode and whose current and best scores come
\* from that same observation.
\* ------------------------------------------------------------------------
ScoreOf(o, key) == IF key \in DOMAIN o THEN o[key] ELSE 0

ModelSeesLatestObservation ==
  pc = "resolve" =>
    /\ model_call.made
    /\ model_call.observation = NestedFeedback(obs)
    /\ model_call.context =
         [ step |-> step_count,
           max_steps |-> max_steps,
           current_reward |-> ScoreOf(obs, "current_position_score"),
           best_reward |-> ScoreOf(obs, "best_position_score"),
           feedback |-> NestedFeedback(obs) ]

\* step k numbers the model calls of the episode: one per ledger entry
StepIsCallNumber ==
  pc = "resolve" => step_count = Len(feedback_history) + 1

\* from the end of a step to the model call of the next one nothing
\* replaces the observation, and the limit stays what the episode fixed
LatestObservationKept ==
  /\ pc \in {"update", "generate"} => obs' = obs
  /\ (pc \in {"generate", "resolve", "submit", "fallback", "recover", "update"}
        /\ pc' # "idle") => max_steps' = max_steps
  /\ pc = "init" /\ pc' = "generate" =>
        max_steps' = IF max_steps = None \/ max_steps = Some(0)
                     THEN DEFAULT_MAX_STEPS ELSE max_steps[1]

C27_ModelSeesLatestFeedback ==
  /\ [](ModelSeesLatestObservation /\ StepIsCallNumber)
  /\ [][LatestObservationKept]_vars

\* step 1 saw an observation without feedback text, step 2 sees the
\* observation made up after the recovery call failed
C27_Witness ==
  /\ pc = "resolve"
  /\ step_count = 2
  /\ conversation_history[1].observation = ""
  /\ obs = DegradedObs([type |-> "RuntimeError", msg |-> "env down"])
  /\ model_call.observation = "Error: env down"
  /\ model_call.context.step = 2
  /\ model_call.context.current_reward = 0

\* ------------------------------------------------------------------------
\* C28  run_episode never appends to or edits the history of the agent
\* itself: after the reset at its start the history changes only in
\* generate_response, which appends one (observation, response) pair per
\* call, after the prompt was built from the history as it was before the
\* call.  After an episode of N steps the history has N entries, in step
\* order, whose observations are the feedback texts passed at each step.
\* ------------------------------------------------------------------------
InEpisode == pc # "idle"

\* entry k is there once the model was called at step k
OneEntryPerStep ==
  /\ pc \in {"generate", "resolve", "submit", "fallback", "recover",
              "update", "return"} =>
        Len(conversation_history) = step_count
  /\ (pc = "idle" /\ outcome.kind = "returned") =>
        Len(conversation_history) = outcome.value.steps_taken

HistoryOnlyByModelCall ==
  /\ (pc = "idle" /\ pc' = "init") => conversation_history' = <<>>
  /\ (InEpisode /\ conversation_history' # conversation_history) =>
        /\ pc = "generate" /\ pc' = "resolve"
        /\ model_call'.history = conversation_history
        /\ conversation_history' =
             Append(conversation_history,
                    [observation |-> NestedFeedback(obs),
                     response |-> agent_response'])
        /\ model_call'.observation = NestedFeedback(obs)

C28_HistoryGrowsOnlyInGenerate ==
  /\ []OneEntryPerStep
  /\ [][HistoryOnlyByModelCall]_vars

\* a two-step episode has returned: two entries, the first one's
\* observation is the initial feedback, the second one's the feedback that
\* ended step 1
C28_Witness ==
  /\ pc = "idle"
  /\ outcome.kind = "returned"
  /\ outcome.value.steps_taken = 2
  /\ Len(conversation_history) = 2
  /\ conversation_history[1].observation = ""
  /\ conversation_history[2].observation = "ok"

\* ------------------------------------------------------------------------
\* Termination of run_episode: one call after the other, each with a limit
\* of None, 0 or 1..MaxSteps, run to its end.  The calls whose exception
\* would leave run_episode (the initial request, the fallback request)
\* return; a submission may raise, as may the recovery request.  An episode
\* under the default limit runs its ten steps on one answer of the model
\* and one result of the environment, which keeps its ten steps one path.
\* ------------------------------------------------------------------------
Limits == {None, Some(0)} \cup {Some(m) : m \in 1..MaxSteps}

DefaultRun == max_steps = DEFAULT_MAX_STEPS /\ DEFAULT_MAX_STEPS > MaxSteps

SteadyResponse == "I need more data."
SteadyObs == Observation("ok", 1, 1, "SUCCESS")

term_enter == \E limit \in Limits : run_episode_enter(limit)

term_init ==
  /\ run_episode_init
  /\ pc' # "idle"
  /\ (max_steps \in {None, Some(0)} /\ DEFAULT_MAX_STEPS > MaxSteps)
       => obs' = SteadyObs

term_generate ==
  /\ step_generate
  /\ DefaultRun => agent_response' = SteadyResponse

term_submit ==
  /\ step_submit
  /\ DefaultRun => (pc' = "update" /\ obs' = SteadyObs /\ env_done' = env_done)

term_fallback == step_fallback /\ pc' # "idle"

TermRun ==
  \/ term_init
  \/ term_generate
  \/ step_resolve
  \/ term_submit
  \/ term_fallback
  \/ step_recover
  \/ step_update
  \/ run_episode_return

TermNext == term_enter \/ TermRun

TermSpec == Init /\ [][TermNext]_vars /\ WF_vars(TermRun)

\* ------------------------------------------------------------------------
\* C30  Provided every call of a collaborator returns, run_episode always
\* terminates, after exactly max_steps iterations of the loop for every
\* max_steps >= 1 and after exactly 10 iterations when max_steps is None or
\* 0; it calls the environment once before the loop and once or twice in
\* each step.
\* ------------------------------------------------------------------------
\* the limit the loop runs under is fixed at the initial request
LimitFixed ==
  /\ (pc = "init" /\ pc' # "init") =>
        max_steps' = IF max_steps = None \/ max_steps = Some(0) THEN 10
                     ELSE max_steps[1]
  /\ (pc \notin {"idle", "init"} /\ pc' # "idle") => max_steps' = max_steps
  /\ (pc = "return" /\ pc' = "idle") =>
        /\ outcome'.kind = "returned"
        /\ outcome'.value.steps_taken = max_steps

IterationsAndCalls ==
  /\ pc \in {"generate", "resolve", "submit", "fallback", "recover",
              "update", "return"} =>
        /\ max_steps \in 1..DEFAULT_MAX_STEPS
        /\ step_count <= max_steps
  /\ pc = "generate" =>
        /\ Len(feedback_history) = step_count
        /\ step_count < max_steps
        /\ Len(calls) \in (IF step_count = 0 THEN {1} ELSE {1, 2})
  /\ pc = "update" => Len(calls) \in {1, 2}
  /\ pc = "return" =>
        /\ step_count = max_steps
        /\ Len(feedback_history) = max_steps
        /\ Len(calls) \in {1, 2}

C30_RunEpisodeTerminates ==
  /\ []IterationsAndCalls
  /\ [][LimitFixed]_vars
  /\ (pc = "init") ~> (pc = "idle" /\ outcome.kind = "returned")

\* an episode entered without a limit has returned after its ten steps
C30_Witness ==
  /\ pc = "idle"
  /\ outcome.kind = "returned"
  /\ outcome.value.steps_taken = DEFAULT_MAX_STEPS
  /\ Len(outcome.value.feedback_history) = DEFAULT_MAX_STEPS
  /\ Len(conversation_history) = DEFAULT_MAX_STEPS

====
